---- MODULE Spec2Model ----
(***************************************************************************)
(* Model of src/script/main.py: the checkpointed title/description         *)
(* refinement pipeline (CheckpointManager, UpdateLogger, WooCommerceAPI,   *)
(* OpenAIAPI, generate_slug, get_og_description,                           *)
(* TitleRefinementAutomation).                                             *)
(*                                                                         *)
(* Text is a sequence of Unicode code points (65 = "A", 97 = "a",          *)
(* 228 = a-umlaut, 223 = sharp s, 32 = space, 45 = "-", 34 = double        *)
(* quote, 39 = single quote).  Python's None is the record None, a text    *)
(* value t is Some(t).                                                     *)
(***************************************************************************)
EXTENDS Integers, Sequences, FiniteSets, TLC

(***************************************************************************)
(* Bounds of the model.                                                    *)
(***************************************************************************)
\* number of products the platform holds (identifiers 1..NItems)
NItems == 2
\* number of times the script is started (a start after a kill counts)
MaxRuns == 2
\* pagination model: largest number of pages and items per page of a source
MaxPages == 3
MaxPageLen == 2
\* slug model: longest title given to generate_slug
MaxSlugLen == 4

(***************************************************************************)
(* Program constants.                                                      *)
(***************************************************************************)
\* ScriptConfig.max_retries
max_retries == 3

Ids == 1..NItems

None == [some |-> FALSE, v |-> <<>>]
Some(t) == [some |-> TRUE, v |-> t]

(***************************************************************************)
(* Text helpers: str.lower, str.strip, str.replace, re.sub as the code     *)
(* uses them.                                                              *)
(***************************************************************************)
\* str.lower() on one code point (ASCII and Latin-1 letters)
LowerChar(c) ==
    IF c >= 65 /\ c <= 90 THEN c + 32
    ELSE IF c >= 192 /\ c <= 222 /\ c # 215 THEN c + 32
    ELSE IF c = 7838 THEN 223
    ELSE c

Lower(s) == [k \in 1..Len(s) |-> LowerChar(s[k])]

RECURSIVE LStrip(_, _)
LStrip(s, drop) ==
    IF s # <<>> /\ Head(s) \in drop THEN LStrip(Tail(s), drop) ELSE s

RECURSIVE RStrip(_, _)
RStrip(s, drop) ==
    IF s # <<>> /\ s[Len(s)] \in drop
    THEN RStrip(SubSeq(s, 1, Len(s) - 1), drop)
    ELSE s

\* str.strip(chars)
Strip(s, drop) == RStrip(LStrip(s, drop), drop)

\* content.strip() then content.strip('"\'')
CleanContent(raw) == Strip(Strip(raw, {9, 10, 11, 12, 13, 32}), {34, 39})

\* faulty variant: no transliteration
TranslitNone(c) == <<c>>

\* German transliteration of one (lower-cased, space-replaced) code point
Translit(c) ==
    IF c = 228 THEN <<97, 101>>
    ELSE IF c = 246 THEN <<111, 101>>
    ELSE IF c = 252 THEN <<117, 101>>
    ELSE IF c = 223 THEN <<115, 115>>
    ELSE <<c>>

RECURSIVE FlatMap(_)
FlatMap(s) == IF s = <<>> THEN <<>> ELSE Translit(Head(s)) \o FlatMap(Tail(s))

\* [a-z0-9\-]
SlugChar(c) == (c >= 97 /\ c <= 122) \/ (c >= 48 /\ c <= 57) \/ c = 45

RECURSIVE KeepSlugChars(_)
KeepSlugChars(s) ==
    IF s = <<>> THEN <<>>
    ELSE IF SlugChar(Head(s)) THEN <<Head(s)>> \o KeepSlugChars(Tail(s))
    ELSE KeepSlugChars(Tail(s))

\* re.sub(r'-+', '-', slug)
RECURSIVE CollapseHyphens(_)
CollapseHyphens(s) ==
    IF Len(s) < 2 THEN s
    ELSE IF s[1] = 45 /\ s[2] = 45 THEN CollapseHyphens(Tail(s))
    ELSE <<s[1]>> \o CollapseHyphens(Tail(s))

generate_slug(title) ==
    LET lowered == Lower(title)
        hyph == [k \in 1..Len(lowered) |-> IF lowered[k] = 32 THEN 45 ELSE lowered[k]]
        translit == FlatMap(hyph)
        kept == KeepSlugChars(translit)
        single == CollapseHyphens(kept)
    IN  Strip(single, {45})

(***************************************************************************)
(* get_og_description: the shapes of product["yoast_head_json"].           *)
(*   missing  - key absent: .get returns {} and {}.get returns ""          *)
(*   null     - value None: None.get raises AttributeError, caught         *)
(*   nonmap   - list / str / number: AttributeError, caught                *)
(*   nodesc   - mapping without og_description: ""                         *)
(*   nulldesc - mapping with og_description None: None is returned         *)
(*   text     - mapping with og_description a string                       *)
(***************************************************************************)
MetaKinds == {"missing", "null", "nonmap", "nodesc", "nulldesc", "text"}

get_og_description(meta) ==
    CASE meta.kind = "missing" -> Some(<<>>)
      [] meta.kind = "null" -> Some(<<>>)
      [] meta.kind = "nonmap" -> Some(<<>>)
      [] meta.kind = "nodesc" -> Some(<<>>)
      [] meta.kind = "nulldesc" -> None
      [] OTHER -> Some(meta.desc)

(***************************************************************************)
(* The catalog source behind WooCommerceAPI.get_all_products.              *)
(*   pages[p] - the products (identifiers) page p holds; a page beyond     *)
(*              Len(pages) is empty                                        *)
(*   total    - the X-WP-TotalPages header, 0 when the header is absent    *)
(*   fail     - the page whose request raises RequestException, 0 if none  *)
(***************************************************************************)
PageOf(source, page) ==
    IF page <= Len(source.pages) THEN source.pages[page] ELSE <<>>

\* int(response.headers.get('X-WP-TotalPages', 1))
TotalPages(source) == IF source.total = 0 THEN 1 ELSE source.total

\* the while-loop of get_all_products from `page` on, `all` fetched so far
RECURSIVE FetchFrom(_, _, _)
FetchFrom(source, page, all) ==
    IF source.fail = page
    THEN [raised |-> TRUE, items |-> <<>>, requests |-> page]
    ELSE LET got == PageOf(source, page) IN
         IF got = <<>>
         THEN [raised |-> FALSE, items |-> all, requests |-> page]
         ELSE IF page >= TotalPages(source)
              THEN [raised |-> FALSE, items |-> all \o got, requests |-> page]
              ELSE FetchFrom(source, page + 1, all \o got)

get_all_products(source) == FetchFrom(source, 1, <<>>)

\* products[:limit] for limit >= 0
Truncate(list, n) == SubSeq(list, 1, IF n < Len(list) THEN n ELSE Len(list))

\* limit = NoLimit stands for limit=None
NoLimit == -1

\* `if limit: products = products[:limit]`
ApplyLimit(list, lim) ==
    IF lim # NoLimit /\ lim # 0 THEN Truncate(list, lim) ELSE list

\* the catalog of n products, identifiers 1..n, in pages of one product
PagesOfCatalog(n) == [p \in 1..n |-> <<p>>]

\* sources of the pipeline runs: the catalog, its header right or absent,
\* and any one page request failing
RunSources ==
    { [pages |-> PagesOfCatalog(n), total |-> t, fail |-> f] :
        n \in 0..NItems, t \in {0, NItems}, f \in 0..NItems }

(***************************************************************************)
(* State.                                                                  *)
(***************************************************************************)
VARIABLES
    checkpoint_file,    \* durable: content of ScriptConfig.checkpoint_file
    log_file,           \* durable: content of ScriptConfig.log_file
    run,                \* number of process starts so far
    pc,                 \* where the process is
    dry_run,            \* argument of run()
    processed_ids,      \* CheckpointManager.processed_ids
    logs,               \* UpdateLogger.logs
    stats,              \* TitleRefinementAutomation.stats
    products, i,        \* run(): the list iterated and the loop position
    cur,                \* the product handled: id, name, og description
    refined_title, refined_description,
    attempt,            \* loop variable of the retry loops
    delays,             \* time.sleep(delay_between_requests) calls of run()
    ending,             \* how the process ended: "" while it runs, the way
                        \* run() returned, or the exception that escaped
    calls,              \* history: client calls made for the current product
    lastCall,           \* history: the last finished client call
    hist,               \* history: per identifier, its outcome in this run
    ckpt0,              \* history: processed_ids as loaded at construction
    nUpd,               \* history: successful update_product calls per id
    prevRun,            \* history: "full" when the previous process was a
                        \* normal run over the whole catalog that reached
                        \* the summary, "clean" when moreover no product
                        \* failed and no checkpoint save was lost, else "none"
    did,                \* history: the identifiers this run called
                        \* refine_*, update_product, log_update and
                        \* mark_processed for
    saveFailed,         \* history: a checkpoint save raised IOError in this run
    source, limit,      \* pagination check: the source and limit given
    fetched,            \* history: what get_all_products returned
    log_kept,           \* history: the entries of the log file when it was
                        \* last written completely
    via_update,         \* history: the identifiers whose latest
                        \* mark_processed call was the one after a
                        \* successful update_product (line 467)
    slug_title, slugs   \* slug check: the title given to generate_slug and
                        \* what each call of it returned

vars == <<checkpoint_file, log_file, run, pc, dry_run, processed_ids,
          logs, stats, products, i, cur, refined_title, refined_description,
          attempt, delays, ending, calls, lastCall, hist, ckpt0, nUpd,
          prevRun, did, saveFailed, source, limit, fetched, log_kept,
          via_update, slug_title, slugs>>

durable == <<checkpoint_file, log_file, log_kept, via_update>>
memory == <<processed_ids, logs>>
locals == <<cur, refined_title, refined_description, attempt>>

FileAbsent == [kind |-> "absent", ids |-> {}, entries |-> <<>>]
FileCorrupt == [kind |-> "corrupt", ids |-> {}, entries |-> <<>>]
FileBadShape == [kind |-> "badshape", ids |-> {}, entries |-> <<>>]
CkptContent(ids) == [kind |-> "valid", ids |-> ids, entries |-> <<>>]
LogContent(entries) == [kind |-> "valid", ids |-> {}, entries |-> entries]

ZeroStats == [total |-> 0, processed |-> 0, updated |-> 0,
              skipped_duplicate |-> 0, skipped_unchanged |-> 0, failed |-> 0]

NoProduct == [id |-> 0, name |-> <<>>, desc |-> None]
NoCall == [name |-> "", attempts |-> 0, failures |-> 0, last |-> "", outcome |-> ""]
NoFetch == [raised |-> FALSE, items |-> <<>>, requests |-> 0]
NoHist == [id \in Ids |-> "none"]
NoDid == [refine |-> {}, update |-> {}, audit |-> {}, mark |-> {}]
NoSource == [pages |-> <<>>, total |-> 0, fail |-> 0]

Terminal == {"stopped", "done", "crashed"}
Running == pc \notin Terminal

(***************************************************************************)
(* Initial state: nothing runs; the two files hold whatever was left       *)
(* there (absent, not parseable, parseable but of another shape).          *)
(***************************************************************************)
Init ==
    /\ checkpoint_file \in {FileAbsent, FileBadShape}
    /\ log_file \in {FileAbsent, FileBadShape}
    /\ run = 0
    /\ pc = "stopped"
    /\ dry_run = FALSE
    /\ processed_ids = {}
    /\ logs = [list |-> TRUE, entries |-> <<>>]
    /\ stats = ZeroStats
    /\ products = <<>>
    /\ i = 0
    /\ cur = NoProduct
    /\ refined_title = None
    /\ refined_description = None
    /\ attempt = 0
    /\ delays = 0
    /\ ending = ""
    /\ calls = <<>>
    /\ lastCall = NoCall
    /\ hist = NoHist
    /\ ckpt0 = {}
    /\ nUpd = [id \in Ids |-> 0]
    /\ prevRun = "none"
    /\ did = NoDid
    /\ saveFailed = FALSE
    /\ source = NoSource
    /\ limit = NoLimit
    /\ fetched = NoFetch
    /\ log_kept = <<>>
    /\ via_update = {}
    /\ slug_title = <<>>
    /\ slugs = <<>>

\* the process state a fresh interpreter starts with
FreshProcess ==
    /\ dry_run' = FALSE
    /\ stats' = ZeroStats
    /\ products' = <<>>
    /\ i' = 0
    /\ cur' = NoProduct
    /\ refined_title' = None
    /\ refined_description' = None
    /\ attempt' = 0
    /\ delays' = 0
    /\ calls' = <<>>
    /\ lastCall' = NoCall
    /\ hist' = NoHist
    /\ did' = NoDid
    /\ saveFailed' = FALSE

\* the process that just ended was a normal run over the whole catalog
EndedFull ==
    /\ pc = "done"
    /\ ending = "summary"
    /\ ~dry_run
    /\ Len(products) = NItems

\* ... in which no product failed and every checkpoint save reached the file
EndedClean == EndedFull /\ stats.failed = 0 /\ ~saveFailed

(***************************************************************************)
(* CheckpointManager._load_checkpoint and UpdateLogger._load_logs.         *)
(*   absent   - os.path.exists is false                                    *)
(*   corrupt  - json.load raises JSONDecodeError, or open raises IOError   *)
(*   badshape - json.load returns a value of another shape (a list, a      *)
(*              number, a string for the checkpoint; anything but a list   *)
(*              for the log)                                               *)
(***************************************************************************)
\* data.get("processed_ids", []) on a non-mapping raises AttributeError,
\* which the except clause (JSONDecodeError, IOError) does not catch
LoadCheckpointRaises(file) == file.kind = "badshape"

\* faulty variant: the stored identifiers are not read back
_load_checkpoint_fresh(file) == {}

_load_checkpoint(file) == IF file.kind = "valid" THEN file.ids ELSE {}

\* json.load's value is returned as it is, list or not
_load_logs(file) ==
    IF file.kind = "valid" THEN [list |-> TRUE, entries |-> file.entries]
    ELSE IF file.kind = "badshape" THEN [list |-> FALSE, entries |-> <<>>]
    ELSE [list |-> TRUE, entries |-> <<>>]

(***************************************************************************)
(* main(): TitleRefinementAutomation() - the constructor loads both files. *)
(***************************************************************************)
Construct ==
    /\ pc \in Terminal
    /\ run < MaxRuns
    /\ run' = run + 1
    /\ prevRun' = IF EndedClean THEN "clean" ELSE IF EndedFull THEN "full" ELSE "none"
    /\ FreshProcess
    /\ IF LoadCheckpointRaises(checkpoint_file)
       THEN /\ pc' = "crashed"
            /\ ending' = "exc_load_checkpoint"
            /\ processed_ids' = {}
            /\ logs' = [list |-> TRUE, entries |-> <<>>]
       ELSE /\ pc' = "constructed"
            /\ ending' = ""
            /\ processed_ids' = _load_checkpoint(checkpoint_file)
            /\ logs' = _load_logs(log_file)
    /\ ckpt0' = processed_ids'
    /\ fetched' = NoFetch
    /\ UNCHANGED <<durable, nUpd, source, limit, slug_title, slugs>>

(***************************************************************************)
(* Process termination (kill, power loss) at any point of a running        *)
(* process: memory is lost, the files stay as they are.                    *)
(***************************************************************************)
Kill ==
    /\ Running
    /\ pc' = "stopped"
    /\ ending' = ""
    /\ prevRun' = "none"
    /\ FreshProcess
    /\ processed_ids' = {}
    /\ logs' = [list |-> TRUE, entries |-> <<>>]
    /\ ckpt0' = {}
    /\ fetched' = NoFetch
    /\ UNCHANGED <<durable, run, nUpd, source, limit, slug_title, slugs>>

(***************************************************************************)
(* run(dry_run, limit), lines 473-501: fetch, return early on a failed or  *)
(* empty fetch, truncate, set stats["total"].                              *)
(***************************************************************************)
Limits == {NoLimit} \cup (0..NItems)

\* faulty variant: when a page request fails the run goes on with the first
\* page of the catalog
RunUpToLoopPartial(d, l, src) ==
    LET r == get_all_products(src)
        got == IF r.raised THEN PageOf(src, 1) ELSE r.items
    IN
    /\ pc = "constructed"
    /\ dry_run' = d
    /\ IF got = <<>>
       THEN /\ pc' = "done"
            /\ ending' = IF r.raised THEN "fetch_failed" ELSE "no_products"
            /\ UNCHANGED <<products, stats, i>>
       ELSE /\ pc' = "loop"
            /\ ending' = ""
            /\ products' = ApplyLimit(got, l)
            /\ stats' = [stats EXCEPT !.total = Len(products')]
            /\ i' = 1
    /\ UNCHANGED <<durable, memory, run, locals, delays, calls, lastCall, hist,
                   ckpt0, nUpd, prevRun, did, saveFailed>>

\* run(d, l) up to the loop, the catalog answering as src does
RunUpToLoop(d, l, src) ==
    LET r == get_all_products(src) IN
    /\ pc = "constructed"
    /\ dry_run' = d
    /\ IF r.raised
       THEN /\ pc' = "done"
            /\ ending' = "fetch_failed"
            /\ UNCHANGED <<products, stats, i>>
       ELSE IF r.items = <<>>
       THEN /\ pc' = "done"
            /\ ending' = "no_products"
            /\ UNCHANGED <<products, stats, i>>
       ELSE /\ pc' = "loop"
            /\ ending' = ""
            /\ products' = ApplyLimit(r.items, l)
            /\ stats' = [stats EXCEPT !.total = Len(products')]
            /\ i' = 1
    /\ UNCHANGED <<durable, memory, run, locals, delays, calls, lastCall, hist,
                   ckpt0, nUpd, prevRun, did, saveFailed>>

\* the value get_all_products returned (or that it raised) is kept
RunFetch ==
    /\ \E d \in BOOLEAN, l \in Limits, src \in RunSources :
         /\ RunUpToLoop(d, l, src)
         /\ fetched' = get_all_products(src)
    /\ UNCHANGED <<source, limit, slug_title, slugs>>

(***************************************************************************)
(* The products and the services' answers the runs are checked on.         *)
(***************************************************************************)
\* product["name"]: "Ab" for every product
NameOf(id) == <<65, 98>>

\* product["yoast_head_json"] shapes met in the runs
RunMetas == { [kind |-> "text", desc |-> <<100>>],
              [kind |-> "nulldesc", desc |-> <<>>] }

\* message contents the refinement service answers with:
\* "" and "aB" in double quotes
RawTitles == { <<>>, <<34, 97, 66, 34>> }
\* "d" and " D"
RawDescs == { <<100>>, <<32, 68>> }

(***************************************************************************)
(* One attempt of a client's retry loop.                                   *)
(*   text      - 200 with choices[0].message.content a string              *)
(*   transient - requests.exceptions.RequestException (connection error,   *)
(*               timeout, raise_for_status)                                *)
(*   keyerror  - 200 whose JSON lacks "choices" / "message" / "content"    *)
(*               or has an empty choices list: KeyError, IndexError        *)
(*   typeerror - 200 whose JSON has another shape (content null, choices   *)
(*               not a list of objects): AttributeError / TypeError, which *)
(*               no except clause of _make_openai_request catches          *)
(***************************************************************************)
OpenAIOutcomes(raws) ==
    { [kind |-> "text", raw |-> r] : r \in raws } \cup
    { [kind |-> k, raw |-> <<>>] : k \in {"transient", "keyerror", "typeerror"} }

\* one iteration of `for attempt in range(max_retries)` of
\* _make_openai_request, `att` the loop variable
OpenAIAttempt(o, att) ==
    CASE o.kind = "text" ->
           [done |-> TRUE, raised |-> FALSE, result |-> Some(CleanContent(o.raw))]
      [] o.kind = "transient" ->
           IF att < max_retries - 1
           THEN [done |-> FALSE, raised |-> FALSE, result |-> None]
           ELSE [done |-> TRUE, raised |-> FALSE, result |-> None]
      [] o.kind = "keyerror" ->
           [done |-> TRUE, raised |-> FALSE, result |-> None]
      [] OTHER ->
           [done |-> TRUE, raised |-> TRUE, result |-> None]

\* one iteration of the loop of update_product; ok is "no exception"
UpdateAttempt(ok, att) ==
    IF ok THEN [done |-> TRUE, result |-> TRUE]
    ELSE IF att < max_retries - 1
         THEN [done |-> FALSE, result |-> FALSE]
         ELSE [done |-> TRUE, result |-> FALSE]

\* history of a client call after one more attempt: the attempts made, how
\* many of them failed, what the last one met, and what the call returned
\* ("" while it goes on)
CallAfter(name, att, met, outcome) ==
    [name |-> name, attempts |-> att + 1,
     failures |-> (IF att = 0 THEN 0 ELSE lastCall.failures)
                  + (IF met \in {"text", "ok"} THEN 0 ELSE 1),
     last |-> met, outcome |-> outcome]

CallRec(name, id, title, slug, desc) ==
    [name |-> name, id |-> id, title |-> title, slug |-> slug, desc |-> desc]

\* Python truthiness of an Optional[str]
Truthy(x) == x.some /\ x.v # <<>>

\* faulty variant: the titles are compared as they are, case included
content_unchanged_exact(original_title, new_title, original_description, new_description) ==
    /\ new_title = original_title
    /\ new_description = original_description

\* lines 423-424: the no-op test of process_single_product
content_unchanged(original_title, new_title, original_description, new_description) ==
    /\ Lower(new_title) = Lower(original_title)
    /\ new_description = original_description

Bump(field) == [stats EXCEPT ![field] = @ + 1]
\* faulty variant: the second counter is forgotten
BumpFirstOnly(f, g) == [stats EXCEPT ![f] = @ + 1]
Bump2(f, g) == [stats EXCEPT ![f] = @ + 1, ![g] = @ + 1]

\* what no step of the item loop changes
fixed == <<run, dry_run, products, ckpt0, prevRun, source, limit, fetched,
           slug_title, slugs>>

\* faulty variant: the original title is given as context
product_title_original == cur.name

\* the product_title argument of refine_description (lines 410-412, 526-528)
product_title == refined_title.v

TheProduct(id, meta) ==
    [id |-> id, name |-> NameOf(id), desc |-> get_og_description(meta)]

log_entry ==
    [item_id |-> cur.id, previous_title |-> cur.name,
     new_title |-> refined_title.v, new_slug |-> generate_slug(refined_title.v),
     seo_title |-> refined_title.v, previous_description |-> cur.desc.v,
     new_description |-> refined_description.v]

\* faulty variant: the checkpoint is never consulted
is_processed_never(item_id) == FALSE

\* CheckpointManager.is_processed
is_processed(item_id) == item_id \in processed_ids

Did(what) == [did EXCEPT ![what] = @ \cup {cur.id}]
Event(e) == [hist EXCEPT ![cur.id] = e]

\* the calls so far, with this one added at its first attempt
WithCall(c) == IF attempt = 0 THEN Append(calls, c) ELSE calls

\* faulty variant: a failed product is checkpointed like a finished one
FailItemCheckpointed(e) ==
    /\ pc' = "mark"
    /\ stats' = Bump("failed")
    /\ hist' = Event(e)

\* `self.stats["failed"] += 1; return False` of process_single_product and the
\* stats["processed"] += 1 of run() after the call; e is what happened
FailItem(e) ==
    /\ pc' = "sleep"
    /\ stats' = Bump2("failed", "processed")
    /\ hist' = Event(e)

(***************************************************************************)
(* process_single_product, lines 380-393: read the product, test the       *)
(* checkpoint.  run() adds 1 to stats["processed"] when the call returns.  *)
(***************************************************************************)
ProcessBegin ==
    /\ pc = "loop"
    /\ ~dry_run
    /\ i <= Len(products)
    /\ \E m \in RunMetas : cur' = TheProduct(products[i], m)
    /\ calls' = <<>>
    /\ lastCall' = NoCall
    /\ refined_title' = None
    /\ refined_description' = None
    /\ attempt' = 0
    /\ IF is_processed(products[i])
       THEN /\ stats' = Bump2("skipped_duplicate", "processed")
            /\ hist' = [hist EXCEPT ![products[i]] = "dup"]
            /\ pc' = "sleep"
       ELSE /\ pc' = "title"
            /\ UNCHANGED <<stats, hist>>
    /\ UNCHANGED <<durable, memory, fixed, i, delays, ending, nUpd, did, saveFailed>>

(***************************************************************************)
(* lines 395-407: refine_title (one attempt of its request per step), the  *)
(* failed return, generate_slug.                                           *)
(***************************************************************************)
ProcessRefineTitle ==
    /\ pc = "title"
    /\ did' = Did("refine")
    /\ \E o \in OpenAIOutcomes(RawTitles) :
         LET r == OpenAIAttempt(o, attempt)
             c1 == WithCall(CallRec("refine_title", cur.id, cur.name, <<>>, None))
         IN
         IF ~r.done
         THEN /\ attempt' = attempt + 1
              /\ calls' = c1
              /\ lastCall' = CallAfter("refine_title", attempt, o.kind, "")
              /\ UNCHANGED <<pc, ending, refined_title, stats, hist>>
         ELSE IF r.raised
         THEN /\ pc' = "crashed"
              /\ ending' = "exc_openai_response"
              /\ calls' = c1
              /\ lastCall' = CallAfter("refine_title", attempt, o.kind, "raised")
              /\ UNCHANGED <<attempt, refined_title, stats, hist>>
         ELSE IF ~r.result.some
         THEN /\ FailItem("title_absent")
              /\ calls' = c1
              /\ lastCall' = CallAfter("refine_title", attempt, o.kind, "none")
              /\ UNCHANGED <<attempt, ending, refined_title>>
         ELSE /\ pc' = "desc"
              /\ refined_title' = r.result
              /\ attempt' = 0
              /\ calls' = Append(c1, CallRec("generate_slug", cur.id, r.result.v,
                                             generate_slug(r.result.v), None))
              /\ lastCall' = CallAfter("refine_title", attempt, o.kind, "text")
              /\ UNCHANGED <<ending, stats, hist>>
    /\ UNCHANGED <<durable, memory, fixed, i, cur, refined_description, delays,
                   nUpd, saveFailed>>

(***************************************************************************)
(* lines 409-428: refine_description with the refined title, the failed    *)
(* return, the two prints (len(original_description) raises TypeError on   *)
(* None), the no-op test.                                                  *)
(***************************************************************************)
ProcessRefineDescription ==
    /\ pc = "desc"
    /\ did' = Did("refine")
    /\ calls' = WithCall(CallRec("refine_description", cur.id, product_title,
                                 <<>>, cur.desc))
    /\ \E o \in OpenAIOutcomes(RawDescs) :
         LET r == OpenAIAttempt(o, attempt) IN
         IF ~r.done
         THEN /\ attempt' = attempt + 1
              /\ lastCall' = CallAfter("refine_description", attempt, o.kind, "")
              /\ UNCHANGED <<pc, ending, refined_description, stats, hist>>
         ELSE IF r.raised
         THEN /\ pc' = "crashed"
              /\ ending' = "exc_openai_response"
              /\ lastCall' = CallAfter("refine_description", attempt, o.kind, "raised")
              /\ UNCHANGED <<attempt, refined_description, stats, hist>>
         ELSE IF ~r.result.some
         THEN /\ FailItem("desc_absent")
              /\ lastCall' = CallAfter("refine_description", attempt, o.kind, "none")
              /\ UNCHANGED <<attempt, ending, refined_description>>
         ELSE /\ refined_description' = r.result
              /\ attempt' = 0
              /\ lastCall' = CallAfter("refine_description", attempt, o.kind, "text")
              /\ IF ~cur.desc.some
                 THEN /\ pc' = "crashed"
                      /\ ending' = "exc_len_none"
                      /\ UNCHANGED <<stats, hist>>
                 ELSE IF content_unchanged(cur.name, refined_title.v,
                                           cur.desc.v, r.result.v)
                 THEN /\ pc' = "mark"
                      /\ stats' = Bump("skipped_unchanged")
                      /\ hist' = Event("unchanged")
                      /\ UNCHANGED ending
                 ELSE /\ pc' = "update"
                      /\ UNCHANGED <<ending, stats, hist>>
    /\ UNCHANGED <<durable, memory, fixed, i, cur, refined_title, delays,
                   nUpd, saveFailed>>

(***************************************************************************)
(* lines 430-453 and 469-471: update_product (one attempt of its PUT per   *)
(* step), stats["updated"] or stats["failed"].                             *)
(***************************************************************************)
ProcessUpdate ==
    /\ pc = "update"
    /\ did' = Did("update")
    /\ calls' = WithCall(CallRec("update_product", cur.id, refined_title.v,
                                 generate_slug(refined_title.v), refined_description))
    /\ \E ok \in BOOLEAN :
         LET r == UpdateAttempt(ok, attempt) IN
         IF ~r.done
         THEN /\ attempt' = attempt + 1
              /\ lastCall' = CallAfter("update_product", attempt, IF ok THEN "ok" ELSE "transient", "")
              /\ UNCHANGED <<pc, stats, hist, nUpd>>
         ELSE IF r.result
         THEN /\ pc' = "log"
              /\ attempt' = 0
              /\ stats' = Bump("updated")
              /\ hist' = Event("updated")
              /\ nUpd' = [nUpd EXCEPT ![cur.id] = @ + 1]
              /\ lastCall' = CallAfter("update_product", attempt, IF ok THEN "ok" ELSE "transient", "true")
         ELSE /\ FailItem("update_failed")
              /\ attempt' = 0
              /\ lastCall' = CallAfter("update_product", attempt, IF ok THEN "ok" ELSE "transient", "false")
              /\ UNCHANGED nUpd
    /\ UNCHANGED <<durable, memory, fixed, i, cur, refined_title,
                   refined_description, delays, ending, saveFailed>>

(***************************************************************************)
(* UpdateLogger.log_update and _save_logs, lines 109-132.  self.logs.append *)
(* raises AttributeError when the loaded value is no list.  open(.., 'w')  *)
(* either raises IOError (caught: the file stays as it was) or truncates   *)
(* the file; json.dump then writes the whole list.                         *)
(***************************************************************************)
LogUpdate ==
    /\ pc = "log"
    /\ IF ~logs.list
       THEN /\ pc' = "crashed"
            /\ ending' = "exc_log_append"
            /\ UNCHANGED <<logs, log_file, did>>
       ELSE /\ logs' = [logs EXCEPT !.entries = Append(@, log_entry)]
            /\ did' = Did("audit")
            /\ UNCHANGED ending
            /\ \E ioerror \in BOOLEAN :
                 IF ioerror
                 THEN /\ pc' = "mark"
                      /\ UNCHANGED log_file
                 ELSE /\ pc' = "log_write"
                      /\ log_file' = FileCorrupt
    /\ UNCHANGED <<checkpoint_file, log_kept, via_update, processed_ids, fixed,
                   stats, i, locals, delays, calls, lastCall, hist, nUpd,
                   saveFailed>>

LogWrite ==
    /\ pc = "log_write"
    /\ log_file' = LogContent(logs.entries)
    /\ log_kept' = logs.entries
    /\ pc' = "mark"
    /\ UNCHANGED <<checkpoint_file, via_update, memory, fixed, stats, i, locals,
                   delays, ending, calls, lastCall, hist, nUpd, did, saveFailed>>

(***************************************************************************)
(* CheckpointManager.mark_processed and _save_checkpoint, lines 78-89,     *)
(* then the return True of process_single_product and run()'s              *)
(* stats["processed"] += 1.                                                *)
(***************************************************************************)
MarkProcessed ==
    /\ pc = "mark"
    /\ processed_ids' = processed_ids \cup {cur.id}
    /\ did' = Did("mark")
    /\ via_update' = IF hist[cur.id] = "updated" THEN via_update \cup {cur.id}
                                                 ELSE via_update \ {cur.id}
    /\ \E ioerror \in BOOLEAN :
         IF ioerror
         THEN /\ pc' = "sleep"
              /\ saveFailed' = TRUE
              /\ stats' = Bump("processed")
              /\ UNCHANGED checkpoint_file
         ELSE /\ pc' = "mark_write"
              /\ checkpoint_file' = FileCorrupt
              /\ UNCHANGED <<stats, saveFailed>>
    /\ UNCHANGED <<log_file, log_kept, logs, fixed, i, locals, delays, ending, calls,
                   lastCall, hist, nUpd>>

MarkWrite ==
    /\ pc = "mark_write"
    /\ checkpoint_file' = CkptContent(processed_ids)
    /\ pc' = "sleep"
    /\ stats' = Bump("processed")
    /\ UNCHANGED <<log_file, log_kept, via_update, memory, fixed, i, locals, delays, ending, calls,
                   lastCall, hist, nUpd, did, saveFailed>>

(***************************************************************************)
(* run(), lines 538-539: time.sleep(delay_between_requests), next product. *)
(***************************************************************************)
ForgetProduct ==
    /\ cur' = NoProduct
    /\ refined_title' = None
    /\ refined_description' = None
    /\ attempt' = 0
    /\ calls' = <<>>
    /\ lastCall' = NoCall

Sleep ==
    /\ pc = "sleep"
    /\ delays' = delays + 1
    /\ i' = i + 1
    /\ pc' = "loop"
    /\ ForgetProduct
    /\ UNCHANGED <<durable, memory, fixed, stats, ending, hist, nUpd, did, saveFailed>>

(***************************************************************************)
(* run(), lines 541-542: the loop is over, print_summary.                  *)
(***************************************************************************)
Summary ==
    /\ pc = "loop"
    /\ i > Len(products)
    /\ pc' = "done"
    /\ ending' = "summary"
    /\ UNCHANGED <<durable, memory, fixed, stats, i, locals, delays, calls,
                   lastCall, hist, nUpd, did, saveFailed>>

(***************************************************************************)
(* run() with dry_run, lines 506-533.                                      *)
(***************************************************************************)
\* faulty variant: a product that is not checkpointed falls through to
\* process_single_product although dry_run is set
DryBeginFallsThrough ==
    /\ pc = "loop"
    /\ dry_run
    /\ i <= Len(products)
    /\ IF is_processed(products[i])
       THEN /\ stats' = Bump("skipped_duplicate")
            /\ hist' = [hist EXCEPT ![products[i]] = "dup"]
            /\ i' = i + 1
            /\ pc' = "loop"
            /\ ForgetProduct
       ELSE /\ \E m \in RunMetas : cur' = TheProduct(products[i], m)
            /\ pc' = "title"
            /\ calls' = <<>>
            /\ lastCall' = NoCall
            /\ refined_title' = None
            /\ refined_description' = None
            /\ attempt' = 0
            /\ UNCHANGED <<stats, hist, i>>
    /\ UNCHANGED <<durable, memory, fixed, delays, ending, nUpd, did, saveFailed>>

DryBegin ==
    /\ pc = "loop"
    /\ dry_run
    /\ i <= Len(products)
    /\ IF is_processed(products[i])
       THEN \* `continue`: the time.sleep at the end of the body is skipped
            /\ stats' = Bump("skipped_duplicate")
            /\ hist' = [hist EXCEPT ![products[i]] = "dup"]
            /\ i' = i + 1
            /\ pc' = "loop"
            /\ ForgetProduct
       ELSE /\ \E m \in RunMetas : cur' = TheProduct(products[i], m)
            /\ pc' = "dry_title"
            /\ calls' = <<>>
            /\ lastCall' = NoCall
            /\ refined_title' = None
            /\ refined_description' = None
            /\ attempt' = 0
            /\ UNCHANGED <<stats, hist, i>>
    /\ UNCHANGED <<durable, memory, fixed, delays, ending, nUpd, did, saveFailed>>

DryRefineTitle ==
    /\ pc = "dry_title"
    /\ did' = Did("refine")
    /\ \E o \in OpenAIOutcomes(RawTitles) :
         LET r == OpenAIAttempt(o, attempt)
             c1 == WithCall(CallRec("refine_title", cur.id, cur.name, <<>>, None))
         IN
         IF ~r.done
         THEN /\ attempt' = attempt + 1
              /\ calls' = c1
              /\ lastCall' = CallAfter("refine_title", attempt, o.kind, "")
              /\ UNCHANGED <<pc, ending, refined_title, stats, hist>>
         ELSE IF r.raised
         THEN /\ pc' = "crashed"
              /\ ending' = "exc_openai_response"
              /\ calls' = c1
              /\ lastCall' = CallAfter("refine_title", attempt, o.kind, "raised")
              /\ UNCHANGED <<attempt, refined_title, stats, hist>>
         ELSE IF ~Truthy(r.result)
         THEN \* `if refined_title:` is false for None and for ""
              /\ pc' = "sleep"
              /\ stats' = Bump("failed")
              /\ hist' = Event(IF r.result.some THEN "title_empty" ELSE "title_absent")
              /\ refined_title' = r.result
              /\ calls' = c1
              /\ lastCall' = CallAfter("refine_title", attempt, o.kind,
                                       IF r.result.some THEN "text" ELSE "none")
              /\ UNCHANGED <<attempt, ending>>
         ELSE /\ pc' = "dry_desc"
              /\ refined_title' = r.result
              /\ attempt' = 0
              /\ calls' = Append(c1, CallRec("generate_slug", cur.id, r.result.v,
                                             generate_slug(r.result.v), None))
              /\ lastCall' = CallAfter("refine_title", attempt, o.kind, "text")
              /\ UNCHANGED <<ending, stats, hist>>
    /\ UNCHANGED <<durable, memory, fixed, i, cur, refined_description, delays,
                   nUpd, saveFailed>>

DryRefineDescription ==
    /\ pc = "dry_desc"
    /\ did' = Did("refine")
    /\ calls' = WithCall(CallRec("refine_description", cur.id, product_title,
                                 <<>>, cur.desc))
    /\ \E o \in OpenAIOutcomes(RawDescs) :
         LET r == OpenAIAttempt(o, attempt) IN
         IF ~r.done
         THEN /\ attempt' = attempt + 1
              /\ lastCall' = CallAfter("refine_description", attempt, o.kind, "")
              /\ UNCHANGED <<pc, ending, refined_description, stats, hist>>
         ELSE IF r.raised
         THEN /\ pc' = "crashed"
              /\ ending' = "exc_openai_response"
              /\ lastCall' = CallAfter("refine_description", attempt, o.kind, "raised")
              /\ UNCHANGED <<attempt, refined_description, stats, hist>>
         ELSE \* text or None: stats["processed"] += 1 either way
              /\ pc' = "sleep"
              /\ refined_description' = r.result
              /\ stats' = Bump("processed")
              /\ hist' = Event(IF r.result.some THEN "previewed" ELSE "desc_absent")
              /\ lastCall' = CallAfter("refine_description", attempt, o.kind,
                                       IF r.result.some THEN "text" ELSE "none")
              /\ UNCHANGED <<attempt, ending>>
    /\ UNCHANGED <<durable, memory, fixed, i, cur, refined_title, delays,
                   nUpd, saveFailed>>

Next ==
    \/ Construct
    \/ Kill
    \/ RunFetch
    \/ ProcessBegin
    \/ ProcessRefineTitle
    \/ ProcessRefineDescription
    \/ ProcessUpdate
    \/ LogUpdate
    \/ LogWrite
    \/ MarkProcessed
    \/ MarkWrite
    \/ Sleep
    \/ Summary
    \/ DryBegin
    \/ DryRefineTitle
    \/ DryRefineDescription

Spec == Init /\ [][Next]_vars

(***************************************************************************)
(* A started process keeps executing: every step of run() that can be      *)
(* taken is taken, unless the process is killed.  Starting the script      *)
(* again and killing it are up to the environment.                         *)
(***************************************************************************)
Step ==
    \/ RunFetch
    \/ ProcessBegin
    \/ ProcessRefineTitle
    \/ ProcessRefineDescription
    \/ ProcessUpdate
    \/ LogUpdate
    \/ LogWrite
    \/ MarkProcessed
    \/ MarkWrite
    \/ Sleep
    \/ Summary
    \/ DryBegin
    \/ DryRefineTitle
    \/ DryRefineDescription

SpecLive == Init /\ [][Next]_vars /\ WF_vars(Step)

(***************************************************************************)
(* The fetch on its own: run() up to the loop on every source of up to     *)
(* MaxPages pages of up to MaxPageLen products, with every header value,   *)
(* failing page and limit; the source, the limit and the value             *)
(* get_all_products returned are kept.                                     *)
(***************************************************************************)
RECURSIVE SumTo(_, _)
SumTo(sizes, p) == IF p = 0 THEN 0 ELSE sizes[p] + SumTo(sizes, p - 1)

\* pages of the given sizes holding the identifiers 1, 2, 3, ... in order
PagesOfSizes(sizes) ==
    [p \in 1..Len(sizes) |-> [k \in 1..sizes[p] |-> SumTo(sizes, p - 1) + k]]

FetchSources ==
    { [pages |-> PagesOfSizes(sizes), total |-> t, fail |-> f] :
        sizes \in UNION { [1..n -> 0..MaxPageLen] : n \in 0..MaxPages },
        t \in 0..(MaxPages + 1), f \in 0..MaxPages }

FetchLimits == {NoLimit} \cup (0..(MaxPageLen + 1))

InitFetch ==
    /\ checkpoint_file = FileAbsent
    /\ log_file = FileAbsent
    /\ run = 1
    /\ pc = "constructed"
    /\ dry_run = FALSE
    /\ processed_ids = {}
    /\ logs = [list |-> TRUE, entries |-> <<>>]
    /\ stats = ZeroStats
    /\ products = <<>>
    /\ i = 0
    /\ cur = NoProduct
    /\ refined_title = None
    /\ refined_description = None
    /\ attempt = 0
    /\ delays = 0
    /\ ending = ""
    /\ calls = <<>>
    /\ lastCall = NoCall
    /\ hist = NoHist
    /\ ckpt0 = {}
    /\ nUpd = [id \in Ids |-> 0]
    /\ prevRun = "none"
    /\ did = NoDid
    /\ saveFailed = FALSE
    /\ source \in FetchSources
    /\ limit \in FetchLimits
    /\ fetched = NoFetch
    /\ log_kept = <<>>
    /\ via_update = {}
    /\ slug_title = <<>>
    /\ slugs = <<>>

FetchOnly ==
    /\ \E d \in BOOLEAN : RunUpToLoop(d, limit, source)
    /\ fetched' = get_all_products(source)
    /\ UNCHANGED <<source, limit, slug_title, slugs>>

NextFetch == FetchOnly

SpecFetch == InitFetch /\ [][NextFetch]_vars

(***************************************************************************)
(* generate_slug on its own: called twice on every title of up to          *)
(* MaxSlugLen characters over                                              *)
(*   A b 1 space - / e-acute  a-umlaut o-umlaut u-umlaut sharp-s           *)
(*   A-umlaut O-umlaut U-umlaut capital-sharp-s                            *)
(***************************************************************************)
SlugAlphabet ==
    {65, 98, 49, 32, 45, 47, 233, 228, 246, 252, 223, 196, 214, 220, 7838}

SlugTitles == UNION { [1..n -> SlugAlphabet] : n \in 0..MaxSlugLen }

InitSlug ==
    /\ checkpoint_file = FileAbsent
    /\ log_file = FileAbsent
    /\ run = 1
    /\ pc = "slug"
    /\ dry_run = FALSE
    /\ processed_ids = {}
    /\ logs = [list |-> TRUE, entries |-> <<>>]
    /\ stats = ZeroStats
    /\ products = <<>>
    /\ i = 0
    /\ cur = NoProduct
    /\ refined_title = None
    /\ refined_description = None
    /\ attempt = 0
    /\ delays = 0
    /\ ending = ""
    /\ calls = <<>>
    /\ lastCall = NoCall
    /\ hist = NoHist
    /\ ckpt0 = {}
    /\ nUpd = [id \in Ids |-> 0]
    /\ prevRun = "none"
    /\ did = NoDid
    /\ saveFailed = FALSE
    /\ source = NoSource
    /\ limit = NoLimit
    /\ fetched = NoFetch
    /\ log_kept = <<>>
    /\ via_update = {}
    /\ slug_title \in SlugTitles
    /\ slugs = <<>>

SlugCall ==
    /\ pc = "slug"
    /\ Len(slugs) < 2
    /\ slugs' = Append(slugs, generate_slug(slug_title))
    /\ UNCHANGED <<durable, memory, locals, run, pc, dry_run, stats, products, i,
                   delays, ending, calls, lastCall, hist, ckpt0, nUpd, prevRun,
                   did, saveFailed, source, limit, fetched, slug_title>>

NextSlug == SlugCall

SpecSlug == InitSlug /\ [][NextSlug]_vars

(***************************************************************************)
(* Properties.                                                             *)
(***************************************************************************)
\* audit entries for an identifier in a stored or loaded list of entries
EntriesFor(entries, id) ==
    Cardinality({k \in 1..Len(entries) : entries[k].item_id = id})

\* the product at position k of the list has been begun
Begun(k) == k < i \/ (k = i /\ pc # "loop")

Handled(id) == \E k \in 1..Len(products) : products[k] = id /\ Begun(k)

With(e) == {id \in Ids : hist[id] = e}

\* what ends a product of a normal run as a per-item failure
FailEvents == {"title_absent", "desc_absent", "update_failed"}

\* equality of two texts ignoring case, letter by letter
IsUpperCase(c) == (c >= 65 /\ c <= 90) \/ (c >= 192 /\ c <= 222 /\ c # 215)
CaseVariant(x, y) ==
    x = y \/ (IsUpperCase(x) /\ y = x + 32) \/ (IsUpperCase(y) /\ x = y + 32)
SameIgnoringCase(a, b) ==
    Len(a) = Len(b) /\ \A k \in 1..Len(a) : CaseVariant(a[k], b[k])

\* C1: across runs sharing the checkpoint store and the audit log, kills
\* included, no identifier gets a second successful update_product call or
\* a second audit entry, and a product whose update was applied is not
\* refined or written again.
C1_ExactlyOnce ==
    \A id \in Ids :
      /\ nUpd[id] <= 1
      /\ EntriesFor(log_file.entries, id) <= 1
      /\ EntriesFor(logs.entries, id) <= 1
      /\ (cur.id = id /\ pc \in {"title", "desc", "update"} => nUpd[id] = 0)

C3_FailureNotCheckpointed ==
    ~dry_run =>
      /\ stats.failed = Cardinality({id \in Ids : hist[id] \in FailEvents})
      /\ \A id \in Ids :
           hist[id] \in FailEvents =>
             /\ id \notin processed_ids
             /\ id \notin did.mark
             /\ id \notin did.audit
             /\ checkpoint_file.kind = "valid" => id \notin checkpoint_file.ids

C3_Witness ==
    /\ ~dry_run
    /\ pc = "done"
    /\ ending = "summary"
    /\ \E id \in Ids : hist[id] = "update_failed"
    /\ \E id \in Ids : hist[id] \in {"title_absent", "desc_absent"}

\* C4: in a normal run, once both refinements of a product returned text,
\* the product is on the no-op path exactly when the refined title equals
\* the original ignoring case and the refined description equals the
\* original exactly; on that path update_product and log_update are not
\* called, the identifier is added to processed_ids, and the product is
\* counted skipped-unchanged and not updated.
C4_NoOpDetection ==
    (~dry_run /\ refined_description.some) =>
      LET noop == /\ SameIgnoringCase(refined_title.v, cur.name)
                  /\ refined_description = cur.desc
      IN
      /\ hist[cur.id] = "unchanged" <=> noop
      /\ noop => /\ cur.id \notin did.update
                 /\ cur.id \notin did.audit
                 /\ \A k \in 1..Len(calls) : calls[k].name # "update_product"
                 /\ pc \in {"mark", "mark_write", "sleep"}
                 /\ pc # "mark" => cur.id \in processed_ids
                 /\ hist[cur.id] # "updated"
      /\ stats.skipped_unchanged = Cardinality(With("unchanged"))
      /\ stats.updated = Cardinality(With("updated"))

C4_Witness ==
    /\ ~dry_run
    /\ pc = "sleep"
    /\ hist[cur.id] = "unchanged"
    /\ refined_title.some
    /\ refined_title.v # cur.name
    /\ cur.id \in processed_ids
    /\ stats.skipped_unchanged = 1
    /\ stats.updated = 0

\* C5: no step of a preview run (dry_run set) changes the checkpoint file,
\* the audit-log file, processed_ids or logs, and a preview run calls
\* neither update_product nor mark_processed nor log_update.
C5_PreviewMutatesNothing ==
    [][dry_run' =>
         /\ UNCHANGED <<checkpoint_file, log_file, processed_ids, logs, nUpd>>
         /\ did'.update = {}
         /\ did'.mark = {}
         /\ did'.audit = {}]_vars

C5_Witness ==
    /\ dry_run
    /\ pc = "done"
    /\ ending = "summary"
    /\ checkpoint_file.kind = "valid"
    /\ log_file.kind = "valid"
    /\ \E id \in Ids : hist[id] = "previewed"

\* C6: a client call all of whose attempts failed returned None / False and
\* did not raise; when the failures were ones the retry loop retries
\* (RequestException) it made exactly max_retries attempts.
C6_RetryExhaustion ==
    (lastCall.outcome # "" /\ lastCall.failures = lastCall.attempts) =>
      /\ lastCall.outcome \in {"none", "false"}
      /\ lastCall.last = "transient" => lastCall.attempts = max_retries

\* C7: a product whose identifier was in the checkpoint set when it was
\* reached gets no refine_title, refine_description or update_product call
\* in this run, normal or preview, and is counted skipped-duplicate.
C7_CheckpointedSkipped ==
    /\ \A id \in ckpt0 :
         /\ id \notin did.refine
         /\ id \notin did.update
         /\ Handled(id) => hist[id] = "dup"
         /\ cur.id = id => calls = <<>>
    /\ With("dup") \subseteq ckpt0
    /\ stats.skipped_duplicate = Cardinality(With("dup"))

C7_Witness ==
    /\ dry_run
    /\ pc = "done"
    /\ ending = "summary"
    /\ With("dup") # {}
    /\ did.refine # {}

\* C8: whatever the checkpoint file and the audit-log file hold at start-up,
\* no exception raised on their content ends the process.
C8_StoreContentNeverAborts ==
    ending \notin {"exc_load_checkpoint", "exc_log_append"}

\* the pages of the source from page p up to the stop the claim names: an
\* empty page, or the page the X-WP-TotalPages header reports as the last
RECURSIVE ListingFrom(_, _)
ListingFrom(src, p) ==
    IF PageOf(src, p) = <<>> THEN <<>>
    ELSE PageOf(src, p) \o
         (IF src.total # 0 /\ p >= src.total THEN <<>> ELSE ListingFrom(src, p + 1))

\* C9: when no request fails, get_all_products returns the non-empty pages
\* of the source in page order up to the first empty page or the last page
\* the source reports.
C9_ListingIsAllPages ==
    (pc # "constructed" /\ ~fetched.raised) => fetched.items = ListingFrom(source, 1)

\* C10: in every run, normal or preview, a delay was applied after each
\* product handled so far when the next product starts.
C10_DelayBetweenItems ==
    (pc = "loop" /\ i <= Len(products)) => delays = i - 1

\* C11: when a page request of get_all_products raises, the step that
\* makes the listing ends the run at once: the list of products stays
\* empty, nothing is counted, no refinement, update, audit or checkpoint
\* call has been made, and the checkpoint and the audit log, in memory and
\* on file, are what they were.
C11_FetchFailureAborts ==
    [][fetched'.raised =>
         /\ pc' = "done"
         /\ ending' = "fetch_failed"
         /\ products' = <<>>
         /\ stats' = ZeroStats
         /\ did' = NoDid
         /\ calls' = <<>>
         /\ hist' = NoHist
         /\ delays' = 0
         /\ UNCHANGED <<checkpoint_file, log_file, processed_ids, logs, nUpd>>]_vars

\* the second page request failed, after a first page with a product on it,
\* in a process that had loaded a checkpoint
C11_Witness ==
    /\ fetched.raised
    /\ fetched.requests >= 2
    /\ ckpt0 # {}
    /\ pc = "done"

\* C12: once the list is fetched, a process that is not killed and whose
\* refinement calls all return reaches the summary, and at the summary
\* every product of the list has been handled.
C12_LoopReachesSummary ==
    /\ [](pc = "done" /\ ending = "summary" =>
            \A k \in 1..Len(products) : hist[products[k]] # "none")
    /\ (pc = "loop") ~>
          \/ pc = "done" /\ ending = "summary"
          \/ pc = "stopped"
          \/ ending = "exc_openai_response"

\* mark_processed(id) was called in this process and has returned
MarkReturned(id) == id \in did.mark /\ (cur.id = id => pc # "mark_write")

\* C13: when mark_processed(id) has returned and no later save is under
\* way, the checkpoint file holds exactly processed_ids, id included.
C13_MarkPersisted ==
    \A id \in Ids :
      (MarkReturned(id) /\ pc # "mark_write") =>
        /\ id \in processed_ids
        /\ checkpoint_file = CkptContent(processed_ids)

\* a is b or the beginning of b
IsPrefix(a, b) == Len(a) <= Len(b) /\ SubSeq(b, 1, Len(a)) = a

\* the entries a reader of the log file gets
Persisted(file) == IF file.kind = "valid" THEN file.entries ELSE <<>>

\* the step starts a new process image (construction, or the end by a kill)
NewProcess == run' # run \/ pc' = "stopped"

\* C14: within a process every step leaves logs as it is or adds one entry
\* at its end, and an entry is added only for the product whose
\* update_product call has just returned True in a normal run; the entries
\* written to the log file are never changed or removed: each complete
\* content of the file begins with the one before it, and outside a save
\* that is under way the file holds the last complete content.
C14_AppendOnly ==
    [][/\ (~NewProcess /\ logs' # logs) =>
            /\ logs'.entries = Append(logs.entries, logs'.entries[Len(logs'.entries)])
            /\ logs'.entries[Len(logs'.entries)].item_id = cur.id
            /\ hist[cur.id] = "updated"
            /\ ~dry_run
            /\ lastCall.name = "update_product" /\ lastCall.outcome = "true"
       /\ IsPrefix(log_kept, log_kept')
       /\ pc' # "log_write" => Persisted(log_file') = log_kept']_vars

\* what the claim has one character of a title become in the slug, hyphens
\* aside: a German character its two letters, a letter its lower-case
\* form, a digit itself, anything else nothing
Rendering(c) ==
    CASE c \in {228, 196} -> <<97, 101>>
      [] c \in {246, 214} -> <<111, 101>>
      [] c \in {252, 220} -> <<117, 101>>
      [] c \in {223, 7838} -> <<115, 115>>
      [] c \in 65..90 -> <<c + 32>>
      [] c \in (97..122) \cup (48..57) -> <<c>>
      [] OTHER -> <<>>

RECURSIVE RenderAll(_)
RenderAll(t) == IF t = <<>> THEN <<>> ELSE Rendering(Head(t)) \o RenderAll(Tail(t))

RECURSIVE WithoutHyphens(_)
WithoutHyphens(t) ==
    IF t = <<>> THEN <<>>
    ELSE IF Head(t) = 45 THEN WithoutHyphens(Tail(t))
    ELSE <<Head(t)>> \o WithoutHyphens(Tail(t))

\* C15: every value generate_slug returns holds only a-z, 0-9 and "-", has
\* no two hyphens in a row and none at either end, holds, hyphens aside,
\* the renderings of the title's characters in order (ae, oe, ue, ss for
\* the German characters in either case), and is the value every other
\* call on the same title returned.
C15_SlugShape ==
    \A n \in 1..Len(slugs) :
      LET r == slugs[n] IN
      /\ \A k \in 1..Len(r) : r[k] \in (97..122) \cup (48..57) \cup {45}
      /\ \A k \in 1..(Len(r) - 1) : ~(r[k] = 45 /\ r[k + 1] = 45)
      /\ r # <<>> => (r[1] # 45 /\ r[Len(r)] # 45)
      /\ WithoutHyphens(r) = RenderAll(slug_title)
      /\ r = slugs[1]

\* "Ü -1" was given twice and came back as "ue-1" both times
C15_Witness ==
    /\ slug_title = <<220, 32, 45, 49>>
    /\ slugs = << <<117, 101, 45, 49>>, <<117, 101, 45, 49>> >>

\* C16: in a normal run the calls made for a product are, in this order,
\* refine_title on the original title, generate_slug on the title
\* refine_title returned, refine_description with that refined title and
\* the original description, and update_product with the refined title,
\* the slug generate_slug returned and the description refine_description
\* returned; update_product is called only when both refinements returned
\* text.
C16_CallOrder ==
    ~dry_run =>
      LET names == [k \in 1..Len(calls) |-> calls[k].name] IN
      /\ IsPrefix(names, <<"refine_title", "generate_slug",
                           "refine_description", "update_product">>)
      /\ \A k \in 1..Len(calls) : calls[k].id = cur.id
      /\ Len(calls) >= 1 => calls[1].title = cur.name
      /\ Len(calls) >= 2 =>
            /\ lastCall.name = "refine_title" => lastCall.outcome = "text"
            /\ refined_title.some
            /\ calls[2].title = refined_title.v
            /\ calls[2].slug = generate_slug(refined_title.v)
      /\ Len(calls) >= 3 =>
            /\ calls[3].title = refined_title.v
            /\ calls[3].desc = cur.desc
      /\ Len(calls) >= 4 =>
            /\ refined_description.some
            /\ calls[4].title = refined_title.v
            /\ calls[4].slug = calls[2].slug
            /\ calls[4].desc = refined_description

\* update_product has returned True for a product whose refined title is
\* not its original title
C16_Witness ==
    /\ ~dry_run
    /\ pc = "log"
    /\ Len(calls) = 4
    /\ refined_title.v # cur.name
    /\ refined_title.v # <<>>
    /\ lastCall.name = "update_product"
    /\ lastCall.outcome = "true"

IsRefinement(c) == c.name \in {"refine_title", "refine_description"}

\* the names of the refinement calls made for the current product
RefinementCalls == LET r == SelectSeq(calls, IsRefinement)
                   IN  [k \in 1..Len(r) |-> r[k].name]

\* C17: both modes follow the rule of process_single_product for the first
\* product of a run that is not checkpointed: refine_description is called
\* exactly when refine_title returned text (empty or not), and the product
\* is counted as failed exactly when one of the two refinements returned
\* None (in a normal run, update_product returning False aside).
C17_PreviewAsNormal ==
    (pc = "sleep" /\ i = 1 /\ hist[cur.id] # "dup") =>
      /\ RefinementCalls = IF refined_title.some
                           THEN <<"refine_title", "refine_description">>
                           ELSE <<"refine_title">>
      /\ hist[cur.id] # "update_failed" =>
            (stats.failed = 1 <=> (~refined_title.some \/ ~refined_description.some))

\* the first n elements of a list, all of them when it has fewer
FirstN(list, n) ==
    [k \in 1..(IF n < Len(list) THEN n ELSE Len(list)) |-> list[k]]

\* C18: when the run enters its loop, the list it iterates is the first
\* min(L, number fetched) products fetched, in fetch order, for a limit
\* L >= 0, and every product fetched when no limit is given; the total
\* counted is the length of that list.
C18_LimitApplied ==
    pc = "loop" =>
      /\ products = IF limit = NoLimit THEN fetched.items
                    ELSE FirstN(fetched.items, limit)
      /\ stats.total = Len(products)

\* C19: whatever product["yoast_head_json"] is, the run is not stopped on
\* the product's original description, and a product that got past its
\* two refinements has a text as original description.
C19_MetadataShapes ==
    /\ ending # "exc_len_none"
    /\ pc \in {"update", "log", "log_write", "mark", "mark_write"} => cur.desc.some

\* C20: in a normal run every product handled so far is counted in exactly
\* one of updated, skipped_duplicate, skipped_unchanged and failed, the one
\* of its outcome; at the summary of a normal run the four add up to
\* processed, which is total; at the summary of a preview run processed,
\* failed and skipped_duplicate add up to total, and updated and
\* skipped_unchanged are 0.
C20_Buckets ==
    LET buckets == stats.updated + stats.skipped_duplicate
                   + stats.skipped_unchanged + stats.failed
    IN
    /\ ~dry_run =>
          /\ stats.updated = Cardinality(With("updated"))
          /\ stats.skipped_duplicate = Cardinality(With("dup"))
          /\ stats.skipped_unchanged = Cardinality(With("unchanged"))
          /\ stats.failed = Cardinality({id \in Ids : hist[id] \in FailEvents})
          /\ buckets = Cardinality({id \in Ids : hist[id] # "none"})
          /\ stats.processed <= buckets
    /\ (pc = "done" /\ ending = "summary" /\ ~dry_run) =>
          /\ buckets = stats.processed
          /\ stats.processed = stats.total
          /\ stats.total = Len(products)
    /\ (pc = "done" /\ ending = "summary" /\ dry_run) =>
          /\ stats.processed + stats.failed + stats.skipped_duplicate = stats.total
          /\ stats.total = Len(products)
          /\ stats.updated = 0
          /\ stats.skipped_unchanged = 0

\* a normal run over two products is over: one was updated, one failed
C20_Witness ==
    /\ ~dry_run
    /\ pc = "done"
    /\ ending = "summary"
    /\ stats.total = 2
    /\ stats.processed = 2
    /\ stats.updated = 1
    /\ stats.failed = 1

\* the identifiers a reader of the checkpoint file gets
CheckpointedOnDisk == IF checkpoint_file.kind = "valid" THEN checkpoint_file.ids ELSE {}

\* the identifiers with an audit entry in entries and no checkpoint in ids
AuditedOnly(entries, ids) == {id \in Ids : EntriesFor(entries, id) > 0 /\ id \notin ids}

\* C21: the audit entry is committed before the checkpoint.  In every state,
\* a state left by a termination included, an identifier that entered the
\* checkpoint set after a successful update has an audit entry, in memory
\* (processed_ids against logs) and on disk (checkpoint file against log
\* file); at most one identifier, the one in flight, has an audit entry
\* without being in the checkpoint set.
C21_AuditBeforeCheckpoint ==
    /\ \A id \in Ids :
         /\ (id \in processed_ids /\ id \in did.mark /\ hist[id] = "updated")
               => EntriesFor(logs.entries, id) > 0
         /\ (id \in CheckpointedOnDisk /\ id \in via_update)
               => EntriesFor(Persisted(log_file), id) > 0
    /\ Cardinality(AuditedOnly(logs.entries, processed_ids)) <= 1
    /\ Cardinality(AuditedOnly(Persisted(log_file), CheckpointedOnDisk)) <= 1

====
